---------------------------- MODULE Spec2Model ----------------------------
(***************************************************************************)
(* Model of site/build.js, the one-shot static-site build: it loads        *)
(* data.json, injects the contact secrets from the environment, renders    *)
(* the page body, substitutes it into template.html and writes             *)
(* docs/index.html and docs/style.css.                                     *)
(*                                                                         *)
(* A JavaScript string is a sequence of one-character strings, so that     *)
(* escaping, formatting, searching and substitution are computed character *)
(* by character.  A JavaScript value that the code tests with typeof is a  *)
(* record tagged with its kind (Str, Num).                                 *)
(***************************************************************************)
EXTENDS Integers, Sequences, FiniteSets, TLC

VARIABLES
    pc,           \* position of the script: the next top-level statement
    env,          \* process.env, a function from the names that are set
    data,         \* the Document parsed from data.json
    loaded,       \* the Document as JSON.parse returned it
    template,     \* the text of template.html
    content,      \* html accumulated by generateContent
    sectionIdx,   \* generateContent's loop: sections rendered so far
    output,       \* the page after the substitutions
    docsDir,      \* whether the docs directory exists
    files,        \* output files that exist, path -> text
    written,      \* paths whose write or copy returned normally
    stdout,       \* console.log lines
    stderr,       \* console.error lines and uncaught exceptions
    exitCode,     \* the process's exit status, -1 while it runs
    assigned,     \* contact fields assigned by the script, in order
    input,        \* the string drawn for a function called on its own
    op,           \* the function applied to it, "none" before
    arg,          \* the argument built from input
    result        \* what the function returned

vars == <<pc, env, data, loaded, template, content, sectionIdx, output, docsDir, files,
          written, stdout, stderr, exitCode, assigned, input, op, arg, result>>

buildVars == <<pc, env, data, loaded, template, content, sectionIdx, output, docsDir,
               files, written, stdout, stderr, exitCode, assigned>>

textVars == <<input, op, arg, result>>

---------------------------------------------------------------------------
(* Bounds of the model. *)

\* longest string drawn for a function called on its own
MaxLen == 3

\* longest template, counted in pieces (a marker or a literal character)
MaxParts == 3

---------------------------------------------------------------------------
(* JavaScript values and built-ins the script uses. *)

Str(s) == [kind |-> "string", s |-> s]

Num(n) == [kind |-> "number", n |-> n]

\* the value of a variable not yet assigned
Undefined == [kind |-> "undefined"]

\* an array of arrays, the value of a table row
Arr(rows) == [kind |-> "array", rows |-> rows]

Min(S) == CHOOSE x \in S : \A y \in S : x <= y

Max(S) == CHOOSE x \in S : \A y \in S : x >= y

RECURSIVE join(_)
\* Array.prototype.join(""): the parts concatenated in order (the first
\* half, then the second half)
join(parts) ==
    IF parts = <<>> THEN <<>>
    ELSE IF Len(parts) = 1 THEN parts[1]
    ELSE LET half == Len(parts) \div 2
         IN  join(SubSeq(parts, 1, half))
                 \o join(SubSeq(parts, half + 1, Len(parts)))

\* the positions (1-based) where pat occurs in s
occurrences(s, pat) ==
    {i \in 1..(Len(s) - Len(pat) + 1) :
        s[i] = pat[1] /\ SubSeq(s, i, i + Len(pat) - 1) = pat}

\* String.prototype.includes
includes(s, pat) == occurrences(s, pat) # {}

\* String.prototype.indexOf: 0-based, -1 when pat does not occur
indexOf(s, pat) ==
    IF includes(s, pat) THEN Min(occurrences(s, pat)) - 1 ELSE -1

\* String.prototype.substring(from), from 0-based
substring(s, from) == SubSeq(s, from + 1, Len(s))

\* String.prototype.slice(-n)
sliceLast(s, n) == SubSeq(s, Max({1, Len(s) - n + 1}), Len(s))

\* the character U+0060 (grave accent), which a string literal of this
\* module cannot hold
grave == "U+0060"

\* code points 32..126 in order
Printable == <<" ", "!", "\"", "#", "$", "%", "&", "'", "(", ")", "*", "+",
               ",", "-", ".", "/", "0", "1", "2", "3", "4", "5", "6", "7",
               "8", "9", ":", ";", "<", "=", ">", "?", "@", "A", "B", "C",
               "D", "E", "F", "G", "H", "I", "J", "K", "L", "M", "N", "O",
               "P", "Q", "R", "S", "T", "U", "V", "W", "X", "Y", "Z", "[",
               "\\", "]", "^", "_", grave, "a", "b", "c", "d", "e", "f", "g",
               "h", "i", "j", "k", "l", "m", "n", "o", "p", "q", "r", "s",
               "t", "u", "v", "w", "x", "y", "z", "{", "|", "}", "~">>

\* String.prototype.charCodeAt(0) of a one-character string
charCodeAt(c) ==
    IF c = "\n" THEN 10
    ELSE IF c = "\t" THEN 9
    ELSE 31 + (CHOOSE i \in 1..Len(Printable) : Printable[i] = c)

RECURSIVE numberToString(_)
\* Number::toString of a non-negative integer
numberToString(n) ==
    IF n < 10 THEN <<Printable[17 + n]>>
    ELSE numberToString(n \div 10) \o <<Printable[17 + (n % 10)]>>

\* the string a template literal interpolates for a value
toStr(v) == IF v.kind = "string" THEN v.s ELSE numberToString(v.n)

\* Array.prototype.join(",") of an array of numbers
joinComma(ns) ==
    join([i \in 1..Len(ns) |->
             IF i = 1 THEN numberToString(ns[i])
             ELSE <<",">> \o numberToString(ns[i])])

\* JSON.stringify of an array of numbers
JSONstringify(ns) == <<"[">> \o joinComma(ns) \o <<"]">>

\* String.prototype.replace(/c/g, r) for a one-character pattern c and
\* a replacement r that holds no $: without a match the string is
\* returned as it is, otherwise every c becomes r and every other
\* character stays
replaceAllChar(s, c, r) ==
    IF \A i \in 1..Len(s) : s[i] # c THEN s
    ELSE join([i \in 1..Len(s) |-> IF s[i] = c THEN r ELSE <<s[i]>>])

RECURSIVE replaceDelimited(_, _, _, _)
\* String.prototype.replace(/d([^d]+)d/g, open + "$1" + close): the
\* leftmost match starts at the first d that is followed by a character
\* other than d and, later, by another d; it ends at the first d after its
\* start, and the search resumes after that closing d
replaceDelimited(s, d, open, close) ==
    LET starts == {i \in 1..(Len(s) - 2) :
                       /\ s[i] = d
                       /\ s[i + 1] # d
                       /\ \E j \in (i + 2)..Len(s) : s[j] = d}
    IN  IF starts = {} THEN s
        ELSE LET i == Min(starts)
                 j == Min({k \in (i + 2)..Len(s) : s[k] = d})
             IN  SubSeq(s, 1, i - 1) \o open \o SubSeq(s, i + 1, j - 1)
                     \o close
                     \o replaceDelimited(SubSeq(s, j + 1, Len(s)), d, open,
                                         close)

\* the characters /\s/ matches, among those the model uses
isSpace(c) == c \in {" ", "\n", "\t"}

\* String.prototype.replace(/\s+/g, " "): each run of white space
\* becomes one space, that is, a white-space character that follows
\* another is dropped and the first of a run becomes a space
collapseSpaces(s) ==
    LET kept == {i \in 1..Len(s) :
                     ~isSpace(s[i]) \/ i = 1 \/ ~isSpace(s[i - 1])}
        nth(k) == CHOOSE i \in kept : Cardinality({j \in kept : j < i}) = k - 1
    IN  [k \in 1..Cardinality(kept) |->
            IF isSpace(s[nth(k)]) THEN " " ELSE s[nth(k)]]

\* String.prototype.trim
trim(s) ==
    LET others == {j \in 1..Len(s) : ~isSpace(s[j])}
    IN  IF others = {} THEN <<>> ELSE SubSeq(s, Min(others), Max(others))

RECURSIVE split(_, _)
\* String.prototype.split(sep) for a one-character separator
split(s, sep) ==
    LET seps == {j \in 1..Len(s) : s[j] = sep}
    IN  IF seps = {} THEN <<s>>
        ELSE <<SubSeq(s, 1, Min(seps) - 1)>>
                 \o split(SubSeq(s, Min(seps) + 1, Len(s)), sep)

---------------------------------------------------------------------------
(* The functions of build.js. *)

\* the fixed shift of obfuscate
shift == 7

\* obfuscate(str): the shifted char codes of str
obfuscate(str) == [i \in 1..Len(str) |-> charCodeAt(str[i]) + shift]

\* maskEmail(email)
maskEmail(email) ==
    LET atIndex == indexOf(email, <<"@">>)
    IN  IF atIndex > 0 THEN <<"*", "*", "*">> \o substring(email, atIndex) ELSE <<
                                                                                  "*",
                                                                                  "*",
                                                                                  "*">>

\* maskPhone(phone)
maskPhone(phone) ==
    LET cleaned == trim(collapseSpaces(phone))
        parts == split(cleaned, " ")
    IN  IF Len(parts) >= 2
        THEN LET countryCode == parts[1]
                 lastPart == parts[Len(parts)]
                 lastDigits == sliceLast(lastPart, 4)
             IN  countryCode \o <<" ", "*", "*", "*", " ", "*", "*", "*", " ">> \o lastDigits
        ELSE <<"*", "*", "*", " ", "*", "*", "*", " ", "*", "*", "*", "*">>

\* escapeChars with the ampersand replaced last instead of first
escapeCharsAmpLast(s) ==
    replaceAllChar(
        replaceAllChar(
            replaceAllChar(
                replaceAllChar(
                    replaceAllChar(s, "<", <<"&", "l", "t", ";">>),
                    ">", <<"&", "g", "t", ";">>),
                "\"", <<"&", "q", "u", "o", "t", ";">>),
            "'", <<"&", "#", "0", "3", "9", ";">>),
        "&", <<"&", "a", "m", "p", ";">>)

\* the five replacements of escapeHtml, applied to the characters, in the
\* order of the source
escapeChars(s) ==
    replaceAllChar(
        replaceAllChar(
            replaceAllChar(
                replaceAllChar(
                    replaceAllChar(s, "&", <<"&", "a", "m", "p", ";">>),
                    "<", <<"&", "l", "t", ";">>),
                ">", <<"&", "g", "t", ";">>),
            "\"", <<"&", "q", "u", "o", "t", ";">>),
        "'", <<"&", "#", "0", "3", "9", ";">>)

\* escapeHtml(text)
escapeHtml(text) ==
    IF text.kind # "string" THEN text ELSE Str(escapeChars(text.s))

\* the replacements of formatText after the escaping: bold, italic, line
\* breaks
formatChars(s) ==
    replaceAllChar(
        replaceDelimited(
            replaceDelimited(s, "*", <<"<", "s", "t", "r", "o", "n", "g", ">">>, <<
                                                                                   "<",
                                                                                   "/",
                                                                                   "s",
                                                                                   "t",
                                                                                   "r",
                                                                                   "o",
                                                                                   "n",
                                                                                   "g",
                                                                                   ">">>),
            "_", <<"<", "e", "m", ">">>, <<"<", "/", "e", "m", ">">>),
        "\n", <<"<", "b", "r", ">">>)

\* formatText escaping its input twice
formatTextTwice(text) ==
    IF text.kind # "string" THEN text
    ELSE Str(formatChars(escapeHtml(escapeHtml(text)).s))

\* formatText(text)
formatText(text) ==
    IF text.kind # "string" THEN text
    ELSE Str(formatChars(escapeHtml(text).s))

\* the template literal entry returns, around the label and the value it
\* interpolates
entryMarkup(labelHtml, valueHtml) ==
    <<"<", "d", "i", "v", " ", "c", "l", "a", "s", "s", "=", "\"", "e", "n",
      "t", "r", "y", "\"", ">", "\n", " ", " ", " ", " ", " ", " ", "<", "d",
      "i", "v", " ", "c", "l", "a", "s", "s", "=", "\"", "e", "n", "t", "r",
      "y", "-", "l", "a", "b", "e", "l", "\"", ">">>
        \o labelHtml
        \o <<"<", "/", "d", "i", "v", ">", "\n", " ", " ", " ", " ", " ",
             " ", "<", "d", "i", "v", " ", "c", "l", "a", "s", "s", "=",
             "\"", "e", "n", "t", "r", "y", "-", "v", "a", "l", "u", "e",
             "\"", ">">>
        \o valueHtml
        \o <<"<", "/", "d", "i", "v", ">", "\n", " ", " ", " ", " ", "<",
             "/", "d", "i", "v", ">">>

\* entry formatting every string value, without the test for <
entryAlwaysFormats(label, value) ==
    LET safeValue == IF value.kind = "string" THEN formatText(value) ELSE value
    IN  entryMarkup(toStr(escapeHtml(label)), toStr(safeValue))

\* entry(label, value)
entry(label, value) ==
    LET safeValue ==
            IF value.kind = "string" /\ ~includes(value.s, <<"<">>)
            THEN formatText(value)
            ELSE value
    IN  entryMarkup(toStr(escapeHtml(label)), toStr(safeValue))

\* one <tr> of renderTableRow: rowData.map(...).join("")
tableRowHtml(rowData) ==
    <<"<", "t", "r", ">">>
        \o join([i \in 1..Len(rowData) |->
                    <<"<", "t", "d", ">">> \o toStr(formatText(rowData[i])) \o <<
                                                                                 "<",
                                                                                 "/",
                                                                                 "t",
                                                                                 "d",
                                                                                 ">">>])
        \o <<"<", "/", "t", "r", ">">>

\* the table markup renderTableRow assembles before it calls entry
tableHtml(row) ==
    <<"<", "t", "a", "b", "l", "e", " ", "c", "l", "a", "s", "s", "=", "\"",
      "d", "a", "t", "a", "-", "t", "a", "b", "l", "e", "\"", ">">>
        \o join([i \in 1..Len(row.value.rows) |->
                    tableRowHtml(row.value.rows[i])])
        \o <<"<", "/", "t", "a", "b", "l", "e", ">">>

\* renderTableRow(row)
renderTableRow(row) == entry(row.title, Str(tableHtml(row)))

\* renderRow(row)
renderRow(row) ==
    IF row.type = "table" THEN renderTableRow(row)
    ELSE entry(row.title, row.value)

\* the html one block of a section adds
blockHtml(block) ==
    <<" ", " ", " ", " ", "<", "d", "i", "v", " ", "c", "l", "a", "s", "s",
      "=", "\"", "e", "n", "t", "r", "y", "-", "b", "l", "o", "c", "k", "\"",
      ">", "\n">>
        \o join([i \in 1..Len(block.rows) |->
                    <<" ", " ", " ", " ">> \o renderRow(block.rows[i]) \o <<
                                                                            "\n">>])
        \o <<" ", " ", " ", " ", "<", "/", "d", "i", "v", ">", "\n">>

\* generateSection(section)
generateSection(section) ==
    <<"<", "s", "e", "c", "t", "i", "o", "n", ">", "\n", " ", " ", "<", "h",
      "2", ">">> \o toStr(escapeHtml(section.title))
        \o <<"<", "/", "h", "2", ">", "\n", " ", " ", "<", "d", "i", "v",
             " ", "c", "l", "a", "s", "s", "=", "\"", "s", "e", "c", "t",
             "i", "o", "n", "-", "c", "o", "n", "t", "e", "n", "t", "\"",
             ">", "\n">>
        \o join([i \in 1..Len(section.blocks) |-> blockHtml(section.blocks[i])])
        \o <<" ", " ", "<", "/", "d", "i", "v", ">", "\n", "<", "/", "s",
             "e", "c", "t", "i", "o", "n", ">", "\n">>

\* emailObf computed from the masked email instead of the full one
emailObfMasked(d) == Str(JSONstringify(obfuscate(maskEmail(d.contact.email.s))))

\* the data-o payload of the email: emailObf
emailObf(d) == Str(JSONstringify(obfuscate(d.contact.email.s)))

\* the data-o payload of the phone: phoneObf
phoneObf(d) == Str(JSONstringify(obfuscate(d.contact.phone.s)))

\* generateHeader(data)
generateHeader(d) ==
    LET emailMasked == Str(maskEmail(d.contact.email.s))
        phoneMasked == Str(maskPhone(d.contact.phone.s))
    IN  <<"<", "h", "e", "a", "d", "e", "r", " ", "c", "l", "a", "s", "s",
          "=", "\"", "h", "e", "a", "d", "e", "r", "\"", ">", "\n", " ", " ",
          "<", "h", "1", ">">> \o toStr(escapeHtml(d.name))
            \o <<"<", "/", "h", "1", ">", "\n", " ", " ", "<", "d", "i", "v",
                 " ", "c", "l", "a", "s", "s", "=", "\"", "c", "o", "n", "t",
                 "a", "c", "t", "-", "i", "n", "f", "o", "\"", ">", "\n",
                 " ", " ", " ", " ", "<", "s", "p", "a", "n", " ", "c", "l",
                 "a", "s", "s", "=", "\"", "p", "r", "o", "t", "e", "c", "t",
                 "e", "d", " ", "b", "o", "l", "d", "\"", " ", "d", "a", "t",
                 "a", "-", "o", "=", "\"">>
            \o toStr(escapeHtml(emailObf(d)))
            \o <<"\"", " ", "d", "a", "t", "a", "-", "t", "y", "p", "e", "=",
                 "\"", "e", "m", "a", "i", "l", "\"", " ", "t", "i", "t",
                 "l", "e", "=", "\"", "C", "l", "i", "c", "k", " ", "t", "o",
                 " ", "r", "e", "v", "e", "a", "l", "\"", ">">>
            \o toStr(escapeHtml(emailMasked))
            \o <<"<", "/", "s", "p", "a", "n", ">", "\n", " ", " ", " ", " ",
                 "<", "s", "p", "a", "n", " ", "c", "l", "a", "s", "s", "=",
                 "\"", "p", "r", "o", "t", "e", "c", "t", "e", "d", "\"",
                 " ", "d", "a", "t", "a", "-", "o", "=", "\"">>
            \o toStr(escapeHtml(phoneObf(d)))
            \o <<"\"", " ", "d", "a", "t", "a", "-", "t", "y", "p", "e", "=",
                 "\"", "p", "h", "o", "n", "e", "\"", " ", "t", "i", "t",
                 "l", "e", "=", "\"", "C", "l", "i", "c", "k", " ", "t", "o",
                 " ", "r", "e", "v", "e", "a", "l", "\"", ">">>
            \o toStr(escapeHtml(phoneMasked))
            \o <<"<", "/", "s", "p", "a", "n", ">", "\n", " ", " ", " ", " ",
                 "<", "s", "p", "a", "n", ">">>
            \o toStr(escapeHtml(d.contact.location))
            \o <<"<", "/", "s", "p", "a", "n", ">", "\n", " ", " ", "<", "/",
                 "d", "i", "v", ">", "\n", "<", "/", "h", "e", "a", "d", "e",
                 "r", ">", "\n">>

---------------------------------------------------------------------------
(* String.prototype.replace with a string pattern and a string             *)
(* replacement, as the output stage calls it: the first occurrence of the  *)
(* pattern is replaced, and the replacement is expanded by GetSubstitution *)
(* ($$, $&, $ followed by a grave accent, $' ; with no capture groups      *)
(* every other $ is literal).                                              *)

\* the number of $ that directly precede position i of rep
dollarsBefore(rep, i) ==
    LET others == {j \in 1..(i - 1) : rep[j] # "$"}
    IN  i - 1 - (IF others = {} THEN 0 ELSE Max(others))

\* the positions of rep where a two-character $ pattern starts, scanning
\* from the left: a $ that is not the second half of a $$, followed by one
\* of $ & grave '
patternStarts(rep) ==
    {i \in 1..(Len(rep) - 1) :
        /\ rep[i] = "$"
        /\ rep[i + 1] \in {"$", "&", grave, "'"}
        /\ dollarsBefore(rep, i) % 2 = 0}

RECURSIVE expandFrom(_, _, _, _, _, _)
\* the expansion of rep from position from on
expandFrom(rep, starts, from, matched, before, after) ==
    LET next == {i \in starts : i >= from}
    IN  IF next = {} THEN SubSeq(rep, from, Len(rep))
        ELSE LET p == Min(next)
                 sub == CASE rep[p + 1] = "$" -> <<"$">>
                          [] rep[p + 1] = "&" -> matched
                          [] rep[p + 1] = grave -> before
                          [] OTHER -> after
             IN  SubSeq(rep, from, p - 1) \o sub
                     \o expandFrom(rep, starts, p + 2, matched, before, after)

\* GetSubstitution(matched, str, position, captures = [], replacement)
GetSubstitution(matched, str, position, replacement) ==
    expandFrom(replacement, patternStarts(replacement), 1, matched,
               SubSeq(str, 1, position),
               SubSeq(str, position + Len(matched) + 1, Len(str)))

\* str.replace(searchString, replaceValue)
replace(str, searchString, replaceValue) ==
    LET pos == indexOf(str, searchString)
    IN  IF pos = -1 THEN str
        ELSE SubSeq(str, 1, pos)
                 \o GetSubstitution(searchString, str, pos, replaceValue)
                 \o SubSeq(str, pos + Len(searchString) + 1, Len(str))

\* the content marker of the template
ContentMarker == <<"<", "!", "-", "-", " ", "C", "O", "N", "T", "E", "N",
                   "T", " ", "-", "-", ">">>

\* the name marker of the template
NameMarker == <<"{", "{", "N", "A", "M", "E", "}", "}">>

---------------------------------------------------------------------------
(* The inputs of the build: the environment, data.json, template.html.     *)

\* the values PII_EMAIL can be set to
Emails == {<<>>, <<"j", "@", "e", ".", "c", "o">>}

\* the values PII_PHONE can be set to
Phones == {<<>>, <<"+", "3", "9", " ", "3", "4", "5", " ", "1", "2", "3",
                   "7", "2", "1", "2">>}

\* process.env restricted to the two names the script reads: each is
\* absent, empty or set
Environments ==
    {e \in UNION {[names -> Emails \cup Phones] :
                     names \in SUBSET {"PII_EMAIL", "PII_PHONE"}} :
        /\ "PII_EMAIL" \in DOMAIN e => e["PII_EMAIL"] \in Emails
        /\ "PII_PHONE" \in DOMAIN e => e["PII_PHONE"] \in Phones}

\* the contact record of data.json, as committed (the secrets are not in it)
FileContact ==
    [email |-> Str(<<"x", "@", "y">>), phone |-> Str(<<"0">>), location |-> Str(<<
                                                                                  "R",
                                                                                  "o",
                                                                                  "m",
                                                                                  "e">>)]

\* row.value payloads of data.json
Values == {Str(<<"G", "o">>), Str(<<"*", "b", "*">>), Str(<<"<", "i", ">",
                                                            "x", "<", "/",
                                                            "i", ">">>), Str(<<
                                                                               "U",
                                                                               "S",
                                                                               "$",
                                                                               "'",
                                                                               "0",
                                                                               "0",
                                                                               "0">>),
           Str(<<"{", "{", "N", "A", "M", "E", "}", "}">>), Num(7)}

\* the rows of data.json
Rows ==
    {[title |-> Str(<<"S", "k", "i", "l", "l">>), type |-> "text", value |-> v] : v \in Values}
        \cup {[title |-> Str(<<"G", "r", "i", "d">>), type |-> "table",
               value |-> Arr(<< <<Str(<<"a">>), Str(<<"_", "b", "_">>)>>,
                                  <<Str(<<"c", "<">>), Num(4)>> >>)]}

\* a section holding one block of the given rows
Section(rows) == [title |-> Str(<<"W", "o", "r", "k">>), blocks |-> <<[rows |-> rows]>>]

\* the section lists of data.json
SectionLists ==
    {<<>>}
        \cup {<<Section(<<r>>)>> : r \in Rows}
        \cup {<<Section(<<r>>), Section(<<>>)>> : r \in Rows}

\* the Documents data.json can hold
Documents ==
    {[name |-> n, contact |-> FileContact, sections |-> ss] :
        n \in {Str(<<"A", "l">>), Str(<<"R", "&", "D">>)}, ss \in SectionLists}

\* the pieces a template is made of
Pieces == {ContentMarker, NameMarker, <<"p">>}

\* the texts template.html can hold: up to MaxParts pieces in any order
Templates ==
    {join(ps) : ps \in UNION {[1..k -> Pieces] : k \in 0..MaxParts}}

\* the text of style.css
StyleCss == <<"h", "1", "{", "}">>

IndexPath == "docs/index.html"

CssPath == "docs/style.css"

\* the file map with path holding contents
withFile(fs, path, contents) ==
    [p \in DOMAIN fs \cup {path} |-> IF p = path THEN contents ELSE fs[p]]

---------------------------------------------------------------------------
(* The script, one action per top-level statement. *)

Init ==
    /\ pc = "readData"
    /\ env \in Environments
    /\ data = Undefined
    /\ loaded = Undefined
    /\ template = <<>>
    /\ content = <<>>
    /\ sectionIdx = 0
    /\ output = <<>>
    /\ docsDir \in BOOLEAN
    /\ files = <<>>
    /\ written = {}
    /\ stdout = <<>>
    /\ stderr = <<>>
    /\ exitCode = -1
    /\ assigned = <<>>
    /\ input = <<>>
    /\ op = "none"
    /\ arg = <<>>
    /\ result = <<>>

\* an exception no handler catches: node prints it and exits with status 1
Throw(message) ==
    /\ pc' = "crashed"
    /\ stderr' = Append(stderr, message)
    /\ exitCode' = 1

\* data = JSON.parse(fs.readFileSync(data.json))
ReadData ==
    /\ pc = "readData"
    /\ \/ /\ \E d \in Documents : data' = d /\ loaded' = d
          /\ pc' = "checkEnv"
          /\ UNCHANGED <<stderr, exitCode>>
       \/ /\ Throw("data.json: ENOENT or SyntaxError")
          /\ UNCHANGED <<data, loaded>>
    /\ UNCHANGED <<env, template, content, sectionIdx, output, docsDir, files,
                   written, stdout, assigned>>
    /\ UNCHANGED textVars

\* !process.env[name]: the name is absent or set to the empty string
missing(name) == name \notin DOMAIN env \/ env[name] = <<>>

\* CheckEnv exiting only when both secrets are missing (&& for ||)
CheckEnvBoth ==
    /\ pc = "checkEnv"
    /\ IF missing("PII_EMAIL") /\ missing("PII_PHONE")
       THEN /\ stderr' = Append(stderr,
                   "Error: PII_EMAIL and PII_PHONE environment variables are required.")
            /\ exitCode' = 1
            /\ pc' = "exited"
       ELSE /\ pc' = "injectEmail"
            /\ UNCHANGED <<stderr, exitCode>>
    /\ UNCHANGED <<env, data, loaded, template, content, sectionIdx, output,
                   docsDir, files, written, stdout, assigned>>
    /\ UNCHANGED textVars

\* if (!PII_EMAIL || !PII_PHONE) { console.error(...); process.exit(1) }
CheckEnv ==
    /\ pc = "checkEnv"
    /\ IF missing("PII_EMAIL") \/ missing("PII_PHONE")
       THEN /\ stderr' = Append(stderr,
                   "Error: PII_EMAIL and PII_PHONE environment variables are required.")
            /\ exitCode' = 1
            /\ pc' = "exited"
       ELSE /\ pc' = "injectEmail"
            /\ UNCHANGED <<stderr, exitCode>>
    /\ UNCHANGED <<env, data, loaded, template, content, sectionIdx, output,
                   docsDir, files, written, stdout, assigned>>
    /\ UNCHANGED textVars

\* data.contact.email = PII_EMAIL
InjectEmail ==
    /\ pc = "injectEmail"
    /\ data' = [data EXCEPT !.contact.email = Str(env["PII_EMAIL"])]
    /\ assigned' = Append(assigned, "email")
    /\ pc' = "injectPhone"
    /\ UNCHANGED <<env, loaded, template, content, sectionIdx, output, docsDir,
                   files, written, stdout, stderr, exitCode>>
    /\ UNCHANGED textVars

\* data.contact.phone = PII_PHONE
InjectPhone ==
    /\ pc = "injectPhone"
    /\ data' = [data EXCEPT !.contact.phone = Str(env["PII_PHONE"])]
    /\ assigned' = Append(assigned, "phone")
    /\ pc' = "readTemplate"
    /\ UNCHANGED <<env, loaded, template, content, sectionIdx, output, docsDir,
                   files, written, stdout, stderr, exitCode>>
    /\ UNCHANGED textVars

\* template = fs.readFileSync(template.html)
ReadTemplate ==
    /\ pc = "readTemplate"
    /\ \/ /\ template' \in Templates
          /\ pc' = "generateHeader"
          /\ UNCHANGED <<stderr, exitCode>>
       \/ /\ Throw("template.html: ENOENT")
          /\ UNCHANGED template
    /\ UNCHANGED <<env, data, loaded, content, sectionIdx, output, docsDir,
                   files, written, stdout, assigned>>
    /\ UNCHANGED textVars

\* GenerateHeader storing the masked email back into the Document
GenerateHeaderMasksInPlace ==
    /\ pc = "generateHeader"
    /\ content' = content \o generateHeader(data)
    /\ data' = [data EXCEPT !.contact.email = Str(maskEmail(data.contact.email.s))]
    /\ pc' = "generateSections"
    /\ UNCHANGED <<env, loaded, template, sectionIdx, output, docsDir,
                   files, written, stdout, stderr, exitCode, assigned>>
    /\ UNCHANGED textVars

\* generateContent(data), first statement: html += generateHeader(data)
GenerateHeader ==
    /\ pc = "generateHeader"
    /\ content' = content \o generateHeader(data)
    /\ pc' = "generateSections"
    /\ UNCHANGED <<env, data, loaded, template, sectionIdx, output, docsDir,
                   files, written, stdout, stderr, exitCode, assigned>>
    /\ UNCHANGED textVars

\* generateContent(data), the loop: html += generateSection(section) for
\* the next section, or, past the last one, the return to the output stage
GenerateSections ==
    /\ pc = "generateSections"
    /\ IF sectionIdx < Len(data.sections)
       THEN /\ content' = content \o generateSection(data.sections[sectionIdx + 1])
            /\ sectionIdx' = sectionIdx + 1
            /\ UNCHANGED pc
       ELSE /\ pc' = "replaceContent"
            /\ UNCHANGED <<content, sectionIdx>>
    /\ UNCHANGED <<env, data, loaded, template, output, docsDir, files,
                   written, stdout, stderr, exitCode, assigned>>
    /\ UNCHANGED textVars

\* output = template.replace("<!-- CONTENT -->", content)
ReplaceContent ==
    /\ pc = "replaceContent"
    /\ output' = replace(template, ContentMarker, content)
    /\ pc' = "replaceName"
    /\ UNCHANGED <<env, data, loaded, template, content, sectionIdx, docsDir,
                   files, written, stdout, stderr, exitCode, assigned>>
    /\ UNCHANGED textVars

\* output = output.replace("{{NAME}}", escapeHtml(data.name))
ReplaceName ==
    /\ pc = "replaceName"
    /\ output' = replace(output, NameMarker, toStr(escapeHtml(data.name)))
    /\ pc' = "ensureDir"
    /\ UNCHANGED <<env, data, loaded, template, content, sectionIdx, docsDir,
                   files, written, stdout, stderr, exitCode, assigned>>
    /\ UNCHANGED textVars

\* if (!fs.existsSync(DOCS_DIR)) fs.mkdirSync(DOCS_DIR, { recursive: true })
EnsureDir ==
    /\ pc = "ensureDir"
    /\ \/ /\ docsDir
          /\ pc' = "writeIndex"
          /\ UNCHANGED <<docsDir, written, stderr, exitCode>>
       \/ /\ ~docsDir
          /\ docsDir' = TRUE
          /\ written' = written \cup {"docs"}
          /\ pc' = "writeIndex"
          /\ UNCHANGED <<stderr, exitCode>>
       \/ /\ ~docsDir
          /\ Throw("mkdir docs: EACCES")
          /\ UNCHANGED <<docsDir, written>>
    /\ UNCHANGED <<env, data, loaded, template, content, sectionIdx, output,
                   files, stdout, assigned>>
    /\ UNCHANGED textVars

\* fs.writeFileSync(docs/index.html, output); console.log(...).  A write
\* that throws leaves no file (the open failed) or a truncated one.
WriteIndex ==
    /\ pc = "writeIndex"
    /\ \/ /\ files' = withFile(files, IndexPath, output)
          /\ written' = written \cup {IndexPath}
          /\ stdout' = Append(stdout, "Generated: docs/index.html")
          /\ pc' = "copyCss"
          /\ UNCHANGED <<stderr, exitCode>>
       \/ /\ Throw("write docs/index.html: EACCES or ENOSPC")
          /\ files' \in {files, withFile(files, IndexPath, <<>>)}
          /\ UNCHANGED <<written, stdout>>
    /\ UNCHANGED <<env, data, loaded, template, content, sectionIdx, output,
                   docsDir, assigned>>
    /\ UNCHANGED textVars

\* fs.copyFileSync(style.css, docs/style.css); console.log(...)
CopyCss ==
    /\ pc = "copyCss"
    /\ \/ /\ files' = withFile(files, CssPath, StyleCss)
          /\ written' = written \cup {CssPath}
          /\ stdout' = Append(stdout, "Copied: docs/style.css")
          /\ pc' = "complete"
          /\ UNCHANGED <<stderr, exitCode>>
       \/ /\ Throw("copy style.css: ENOENT or EACCES")
          /\ UNCHANGED <<files, written, stdout>>
    /\ UNCHANGED <<env, data, loaded, template, content, sectionIdx, output,
                   docsDir, assigned>>
    /\ UNCHANGED textVars

\* console.log("\nBuild complete!") and the normal end of the script
Complete ==
    /\ pc = "complete"
    /\ stdout' = Append(stdout, "\nBuild complete!")
    /\ exitCode' = 0
    /\ pc' = "done"
    /\ UNCHANGED <<env, data, loaded, template, content, sectionIdx, output,
                   docsDir, files, written, stderr, assigned>>
    /\ UNCHANGED textVars

Next ==
    \/ ReadData
    \/ CheckEnv
    \/ InjectEmail
    \/ InjectPhone
    \/ ReadTemplate
    \/ GenerateHeader
    \/ GenerateSections
    \/ ReplaceContent
    \/ ReplaceName
    \/ EnsureDir
    \/ WriteIndex
    \/ CopyCss
    \/ Complete

Spec == Init /\ [][Next]_vars

---------------------------------------------------------------------------
(* The functions on their own: a string is drawn, and one function of      *)
(* build.js is applied to it, or to a row or a Document built from it.     *)

\* the characters of the strings drawn: a letter, the five HTML
\* metacharacters, the markup delimiters, newline (which is also white
\* space) and @
Alphabet == {"a", "&", "<", ">", "\"", "'", "*", "_", "\n", "@"}

\* the strings over Alphabet of length at most n
Strings(n) == UNION {[1..k -> Alphabet] : k \in 0..n}

\* the Document whose contact field which is s, the other contact fields
\* and the name being sample values
DocumentWith(which, s) ==
    [name |-> Str(<<"R", "&", "D">>),
     contact |-> [email |-> Str(IF which = "email" THEN s ELSE <<"j", "@",
                                                                 "e", ".",
                                                                 "c", "o">>),
                  phone |-> Str(IF which = "phone" THEN s ELSE <<"+", "3",
                                                                 "9", " ",
                                                                 "3", "4",
                                                                 "5", " ",
                                                                 "1", "2",
                                                                 "3", "7",
                                                                 "2", "1", "2">>),
                  location |-> Str(<<"R", "o", "m", "e">>)],
     sections |-> <<>>]

\* the arguments that are not strings; they do not depend on the string
\* drawn, and are passed where it is empty
NonStrings(s) == IF s = <<>> THEN {Num(7)} ELSE {}

\* the rows built from s: s as the value of a row of a type other than
\* table, s as a cell of a table, and the rows that hold no string: a number
\* as the value, a table without rows
RowsWith(s) ==
    {[title |-> Str(<<"T", "&", "C">>), type |-> "text", value |-> Str(s)],
     [title |-> Str(<<"T", "&", "C">>), type |-> "table",
      value |-> Arr(<< <<Str(<<"*", "b", "*">>), Str(s)>>, <<Num(7)>> >>)]}
        \cup {[title |-> Str(<<"T", "&", "C">>), type |-> "list", value |-> v] :
                v \in NonStrings(s)}
        \cup {[title |-> Str(<<"T", "&", "C">>), type |-> "table", value |-> Arr(<<>>)] :
                v \in NonStrings(s)}

InitText ==
    /\ input \in Strings(MaxLen)
    /\ op = "none"
    /\ arg = <<>>
    /\ result = <<>>
    /\ pc = "idle"
    /\ env = <<>>
    /\ data = Undefined
    /\ loaded = Undefined
    /\ template = <<>>
    /\ content = <<>>
    /\ sectionIdx = 0
    /\ output = <<>>
    /\ docsDir = FALSE
    /\ files = <<>>
    /\ written = {}
    /\ stdout = <<>>
    /\ stderr = <<>>
    /\ exitCode = -1
    /\ assigned = <<>>

\* the call f(a) returning r
Call(f, a, r) ==
    /\ op = "none"
    /\ op' = f
    /\ arg' = a
    /\ result' = r
    /\ UNCHANGED input
    /\ UNCHANGED buildVars

CallEscapeHtml ==
    \E a \in {Str(input)} \cup NonStrings(input) :
        Call("escapeHtml", a, escapeHtml(a))

CallFormatText ==
    \E a \in {Str(input)} \cup NonStrings(input) :
        Call("formatText", a, formatText(a))

CallMaskEmail == Call("maskEmail", input, maskEmail(input))

CallMaskPhone == Call("maskPhone", input, maskPhone(input))

CallObfuscate == Call("obfuscate", input, obfuscate(input))

CallGenerateHeader ==
    \E which \in {"email", "phone"} :
        Call("generateHeader", DocumentWith(which, input),
             generateHeader(DocumentWith(which, input)))

CallRenderRow ==
    \E row \in RowsWith(input) : Call("renderRow", row, renderRow(row))

NextText ==
    \/ CallEscapeHtml
    \/ CallFormatText
    \/ CallMaskEmail
    \/ CallMaskPhone
    \/ CallObfuscate
    \/ CallGenerateHeader
    \/ CallRenderRow

SpecText == InitText /\ [][NextText]_vars

---------------------------------------------------------------------------
(* The properties checked of the build (Spec) and of its functions          *)
(* (SpecText), with the helper definitions their statements use.           *)

\* some character of s is in cs
hasAny(s, cs) == \E i \in 1..Len(s) : s[i] \in cs

\* the positions the script has after both substitutions
AfterSubstitution == {"ensureDir", "writeIndex", "copyCss", "complete", "done"}

\* a secret is absent or empty
EnvMissing == missing("PII_EMAIL") \/ missing("PII_PHONE")

\* C1: when PII_EMAIL or PII_PHONE is absent or empty, the script never gets
\* past the check of the environment: the template is not read, nothing is
\* rendered, no file is written and the output directory is not created;
\* and when it ends, it has reported an error and exits with a non-zero
\* status.
C1_NoOutputWithoutSecrets ==
    EnvMissing =>
        /\ pc \in {"readData", "checkEnv", "exited", "crashed"}
        /\ template = <<>> /\ content = <<>> /\ output = <<>>
        /\ written = {} /\ files = <<>>
        /\ pc \in {"exited", "crashed"} => exitCode # 0 /\ stderr # <<>>
        /\ pc = "exited" => assigned = <<>>

\* a build stopped by the check of the environment, with PII_EMAIL absent
C1_Witness ==
    /\ pc = "exited"
    /\ "PII_EMAIL" \notin DOMAIN env
    /\ exitCode = 1
    /\ Len(stderr) = 1
    /\ written = {}

\* C2: the build is all-or-nothing: when it completes, both output files
\* were written; when it fails, no output file was written.
C2_AllOrNothing ==
    /\ pc = "done" => {IndexPath, CssPath} \subseteq written
    /\ pc \in {"crashed", "exited"} => written \cap {IndexPath, CssPath} = {}

\* the Document as loaded, with the two secrets of the environment in place
\* of its contact email and phone
Injected ==
    [loaded EXCEPT !.contact.email = Str(env["PII_EMAIL"]),
                   !.contact.phone = Str(env["PII_PHONE"])]

\* C3: contact.email and then contact.phone are each assigned exactly once,
\* with the values of the environment, after the Document is loaded and
\* before generateContent starts; from then on, through rendering,
\* substitution and output, the Document stays the loaded Document with
\* those two fields replaced; a completed build has made both assignments.
C3_ContactInjectedOnceThenFrozen ==
    /\ assigned \in {<<>>, <<"email">>, <<"email", "phone">>}
    /\ assigned = <<>> => data = loaded
    /\ assigned # <<>> => data.contact.email = Str(env["PII_EMAIL"])
    /\ assigned = <<"email", "phone">> => data = Injected
    /\ content # <<>> => assigned = <<"email", "phone">>
    /\ pc \in {"generateHeader", "generateSections", "replaceContent"}
                  \cup AfterSubstitution
           => assigned = <<"email", "phone">>

\* a completed build whose Document holds the secrets and whose body was
\* rendered from it
C3_Witness ==
    /\ pc = "done"
    /\ assigned = <<"email", "phone">>
    /\ data.contact.email.s = env["PII_EMAIL"]
    /\ data.contact.email # loaded.contact.email
    /\ sectionIdx = 2
    /\ includes(content, <<"<", "s", "e", "c", "t", "i", "o", "n", ">">>)

\* the template with its content marker replaced by the rendered body and
\* its name marker by the escaped name, nothing else changed
ExpectedPage ==
    LET name == toStr(escapeHtml(data.name))
        c == Min(occurrences(template, ContentMarker))
        n == Min(occurrences(template, NameMarker))
    IN  IF c < n
        THEN SubSeq(template, 1, c - 1) \o content
                 \o SubSeq(template, c + Len(ContentMarker), n - 1) \o name
                 \o SubSeq(template, n + Len(NameMarker), Len(template))
        ELSE SubSeq(template, 1, n - 1) \o name
                 \o SubSeq(template, n + Len(NameMarker), c - 1) \o content
                 \o SubSeq(template, c + Len(ContentMarker), Len(template))

\* C4: for a template holding the content marker and the name marker (once
\* each), the page is the template with the content marker replaced by the
\* rendered body exactly as generateContent returned it and the name marker
\* replaced by escapeHtml(name), nothing else changed.
C4_MarkersReplacedVerbatim ==
    (/\ pc \in AfterSubstitution
     /\ Cardinality(occurrences(template, ContentMarker)) = 1
     /\ Cardinality(occurrences(template, NameMarker)) = 1)
        => output = ExpectedPage

\* C5: a template that lacks a marker gets no substitution for it: without
\* the name marker the page is the result of the first substitution, and
\* without the content marker the page is the result of the name
\* substitution on the template itself.
C5_MissingMarkerIsNoOp ==
    pc \in AfterSubstitution =>
        /\ ~includes(template, NameMarker)
               => output = replace(template, ContentMarker, content)
        /\ ~includes(template, ContentMarker)
               => output = replace(template, NameMarker,
                                   toStr(escapeHtml(data.name)))

\* C6, as stated: for every string without <, _ and *, formatText(text)
\* equals escapeHtml(text).
C6_FormatIsEscapeWithoutMarkup ==
    (op = "formatText" /\ arg.kind = "string"
        /\ ~hasAny(input, {"<", "_", "*"}))
        => result = escapeHtml(arg)

\* C6, amended: for every string without <, _, * and newline,
\* formatText(text) equals escapeHtml(text).
C6_FormatIsEscapeWithoutMarkupOrNewline ==
    (op = "formatText" /\ arg.kind = "string"
        /\ ~hasAny(input, {"<", "_", "*", "\n"}))
        => result = escapeHtml(arg)

\* formatText applied to a string of metacharacters without <, _, * and
\* newline, which it escaped and left otherwise alone
C6_Witness ==
    /\ op = "formatText"
    /\ arg = Str(<<"&", "\"", ">">>)
    /\ result = Str(<<"&", "a", "m", "p", ";", "&", "q", "u", "o", "t", ";",
                      "&", "g", "t", ";">>)

\* C7: maskEmail returns *** followed by the email from its first @ on
\* whenever the email holds an @, at any position, and the bare ***
\* only when it holds none.
C7_MaskKeepsFromFirstAt ==
    op = "maskEmail" =>
        LET ats == {i \in 1..Len(input) : input[i] = "@"}
        IN  result = IF ats # {}
                     THEN <<"*", "*", "*">> \o SubSeq(input, Min(ats), Len(input))
                     ELSE <<"*", "*", "*">>

\* String.fromCharCode, for the code points the model names
fromCharCode(n) ==
    IF n = 10 THEN "\n"
    ELSE IF n = 9 THEN "\t"
    ELSE IF n \in 32..126 THEN Printable[n - 31]
    ELSE "U+FFFD"

\* the decoding of an obfuscated sequence: 7 subtracted from each integer,
\* each difference converted to its character
decoded(ns) == [i \in 1..Len(ns) |-> fromCharCode(ns[i] - 7)]

Digits == {"0", "1", "2", "3", "4", "5", "6", "7", "8", "9"}

RECURSIVE parseNumber(_)
\* the number a non-empty string of digits writes
parseNumber(ds) ==
    IF Len(ds) = 1 THEN charCodeAt(ds[1]) - 48
    ELSE 10 * parseNumber(SubSeq(ds, 1, Len(ds) - 1))
             + charCodeAt(ds[Len(ds)]) - 48

\* s is the JSON text of an array of non-negative integers
isNumberArray(s) ==
    /\ Len(s) >= 2 /\ s[1] = "[" /\ s[Len(s)] = "]"
    /\ LET inner == SubSeq(s, 2, Len(s) - 1)
       IN  inner # <<>> =>
               \A part \in {split(inner, ",")[i] : i \in 1..Len(split(inner, ","))} :
                   part # <<>> /\ \A j \in 1..Len(part) : part[j] \in Digits

\* JSON.parse of such a text
parseNumberArray(s) ==
    LET inner == SubSeq(s, 2, Len(s) - 1)
        parts == split(inner, ",")
    IN  IF inner = <<>> THEN <<>>
        ELSE [i \in 1..Len(parts) |-> parseNumber(parts[i])]

\* the values of the data-o attributes of html, in the order they appear
dataO(html) ==
    LET starts == occurrences(html, <<"d", "a", "t", "a", "-", "o", "=", "\"">>)
        value(p) ==
            LET from == p + 8
                quotes == {j \in from..Len(html) : html[j] = "\""}
            IN  SubSeq(html, from, Min(quotes) - 1)
        nth(k) == CHOOSE p \in starts : Cardinality({q \in starts : q < p}) = k - 1
    IN  [k \in 1..Cardinality(starts) |-> value(nth(k))]

\* C8: obfuscate returns as many integers as the string has characters, and
\* subtracting 7 from each and converting back to characters gives the
\* string; the header's two data-o attributes hold the JSON arrays that
\* decode in this way to the full email and the full phone.
C8_ObfuscationRoundTrip ==
    /\ op = "obfuscate" =>
           /\ Len(result) = Len(input)
           /\ decoded(result) = input
    /\ op = "generateHeader" =>
           LET attrs == dataO(result)
           IN  /\ Len(attrs) = 2
               /\ isNumberArray(attrs[1]) /\ isNumberArray(attrs[2])
               /\ decoded(parseNumberArray(attrs[1])) = arg.contact.email.s
               /\ decoded(parseNumberArray(attrs[2])) = arg.contact.phone.s

\* a header built for an email of three characters, one of them an HTML
\* metacharacter, whose data-o attribute decodes to that email
C8_Witness ==
    /\ op = "generateHeader"
    /\ arg.contact.email.s = <<"a", "@", "<">>
    /\ dataO(result)[1] = <<"[", "1", "0", "4", ",", "7", "1", ",", "6", "7",
                            "]">>
    /\ decoded(parseNumberArray(dataO(result)[1])) = <<"a", "@", "<">>

\* the entity escapeHtml writes for one character
entityOf(c) ==
    CASE c = "&" -> <<"&", "a", "m", "p", ";">>
      [] c = "<" -> <<"&", "l", "t", ";">>
      [] c = ">" -> <<"&", "g", "t", ";">>
      [] c = "\"" -> <<"&", "q", "u", "o", "t", ";">>
      [] c = "'" -> <<"&", "#", "0", "3", "9", ";">>
      [] OTHER -> <<c>>

\* one of the five entities starts at position i of s
entityAt(s, i) ==
    \E e \in {<<"&", "a", "m", "p", ";">>, <<"&", "l", "t", ";">>, <<"&",
                                                                     "g",
                                                                     "t", ";">>, <<
                                                                                   "&",
                                                                                   "q",
                                                                                   "u",
                                                                                   "o",
                                                                                   "t",
                                                                                   ";">>, <<
                                                                                            "&",
                                                                                            "#",
                                                                                            "0",
                                                                                            "3",
                                                                                            "9",
                                                                                            ";">>} :
        i + Len(e) - 1 <= Len(s) /\ SubSeq(s, i, i + Len(e) - 1) = e

\* C9: the output of escapeHtml holds no raw <, >, " or ', every & in it
\* starts one of the five entities, and it is the input with each
\* metacharacter replaced by its entity; escaping the output again is not
\* the identity when the input held a metacharacter: every & of the first
\* output becomes &amp;.
C9_EscapeHtmlEntities ==
    (op = "escapeHtml" /\ arg.kind = "string") =>
        /\ ~hasAny(result.s, {"<", ">", "\"", "'"})
        /\ \A i \in 1..Len(result.s) :
               result.s[i] = "&" => entityAt(result.s, i)
        /\ result.s = join([i \in 1..Len(input) |-> entityOf(input[i])])
        /\ hasAny(input, {"&", "<", ">", "\"", "'"}) =>
               /\ escapeHtml(result) # result
               /\ escapeHtml(result).s
                      = replaceAllChar(result.s, "&", <<"&", "a", "m", "p",
                                                        ";">>)

\* escapeHtml applied to a string that holds an ampersand and a <
C9_Witness ==
    /\ op = "escapeHtml"
    /\ arg = Str(<<"&", "<", "a">>)
    /\ result = Str(<<"&", "a", "m", "p", ";", "&", "l", "t", ";", "a">>)
    /\ escapeHtml(result) = Str(<<"&", "a", "m", "p", ";", "a", "m", "p",
                                  ";", "&", "a", "m", "p", ";", "l", "t",
                                  ";", "a">>)

\* C10: a row whose type is not table renders as the entry of its escaped
\* title and of its value, verbatim when the value is a string holding <
\* or is not a string, passed through formatText otherwise; a table row
\* renders as the entry of its escaped title and of the table markup, whose
\* cells were each passed through formatText once, the markup itself being
\* neither escaped nor formatted again.
C10_RenderRowValue ==
    op = "renderRow" =>
        result = entryMarkup(
                     toStr(escapeHtml(arg.title)),
                     IF arg.type = "table" THEN tableHtml(arg)
                     ELSE IF arg.value.kind = "string"
                              /\ ~hasAny(arg.value.s, {"<"})
                          THEN toStr(formatText(arg.value))
                          ELSE toStr(arg.value))

\* a table row with a cell holding bold markup and an ampersand: the cell
\* is formatted once and the table markup around it is left as assembled
C10_Witness ==
    /\ op = "renderRow"
    /\ arg.type = "table"
    /\ input = <<"*", "&", "*">>
    /\ includes(result, <<"<", "t", "d", ">", "<", "s", "t", "r", "o", "n",
                          "g", ">", "&", "a", "m", "p", ";", "<", "/", "s",
                          "t", "r", "o", "n", "g", ">", "<", "/", "t", "d",
                          ">", "<", "/", "t", "r", ">", "<", "t", "r", ">",
                          "<", "t", "d", ">", "7", "<", "/", "t", "d", ">">>)
    /\ includes(result, <<"<", "d", "i", "v", " ", "c", "l", "a", "s", "s",
                          "=", "\"", "e", "n", "t", "r", "y", "-", "v", "a",
                          "l", "u", "e", "\"", ">", "<", "t", "a", "b", "l",
                          "e", " ", "c", "l", "a", "s", "s", "=", "\"", "d",
                          "a", "t", "a", "-", "t", "a", "b", "l", "e", "\"",
                          ">", "<", "t", "r", ">">>)

===========================================================================
